---- MODULE Spec2Model ----
(***************************************************************************)
(* Model of search.py: the /search_local request path of the search        *)
(* microservice (get_local_data, search_local_data, search_local_endpoint) *)
(* and the fuzzy filter step with its partial-ratio scorer.                *)
(*                                                                         *)
(* Python strings are sequences of one-character strings.  A score is the  *)
(* exact rational 100 * num / den, kept as the pair [num, den], so that a  *)
(* comparison with an integer threshold is decided as the float            *)
(* comparison of the code decides it (within the string lengths used here  *)
(* every score that is an integer is also exact as a double).              *)
(***************************************************************************)
EXTENDS Integers, Sequences, FiniteSets, TLC

VARIABLES pc, source, query, fuzz_threshold, limit, upstream,
          local_data, results, response, requests_sent

vars == <<pc, source, query, fuzz_threshold, limit, upstream,
          local_data, results, response, requests_sent>>

-----------------------------------------------------------------------------
(* Bounds of the model *)

\* longest candidate sequence handed to the filter
MaxData == 3

\* limits range over -MaxLimit .. MaxLimit
MaxLimit == 3

-----------------------------------------------------------------------------
(* Program constants *)

\* MAIN_APP_API = "http://127.0.0.1:5001/get_data": one URL string, not a dict
MAIN_APP_API ==
    <<"h","t","t","p",":","/","/","1","2","7",".","0",".","0",".","1",":",
      "5","0","0","1","/","g","e","t","_","d","a","t","a">>

-----------------------------------------------------------------------------
(* Inputs *)

Range(s) == { s[i] : i \in 1..Len(s) }

PyStr(chars) == [type |-> "str", val |-> chars]

\* values of the `source` query parameter (FastAPI hands a str to the handler)
SourceList ==
    << PyStr(<<"i","n","v","e","n","t","o","r","y">>),
       PyStr(<<"b","o","o","k","s">>),
       PyStr(<<"g","e","t","_","d","a","t","a">>),
       PyStr(<<"d","a","t","a">>),
       PyStr(<<"5","0","0","1">>),
       PyStr(<<>>) >>

QueryList == << <<"a","b","c">>, <<"a","b">>, <<>> >>

\* fuzz_threshold is an unvalidated int: the default, values in range and at
\* the edges, values out of range
ThresholdList == <<80, 0, 50, 81, 100, 101, -1>>

\* limit is an unvalidated int: 0, 1, .., MaxLimit, -1, .., -MaxLimit
LimitAt(i) == IF i <= MaxLimit THEN i ELSE MaxLimit - i

\* candidate records: a title and a field that is passed through untouched
Candidates ==
    { [id |-> 1, title |-> <<"a","b","c">>],
      [id |-> 2, title |-> <<"b","c","a">>],
      [id |-> 3, title |-> <<"b","b">>],
      [id |-> 4, title |-> <<>>],
      [id |-> 5, title |-> <<"a","b","c">>] }

SeqsUpTo(S, n) == UNION { [1..k -> S] : k \in 0..n }

DataPool == SeqsUpTo(Candidates, MaxData)

\* what the main program's API would answer, were it asked
Upstreams ==
    { [ok |-> FALSE, data |-> <<>>] } \cup
    { [ok |-> TRUE, data |-> d] : d \in { x \in DataPool : Len(x) <= 1 } }

-----------------------------------------------------------------------------
(* Python helpers *)

Max(a, b) == IF a >= b THEN a ELSE b
Min(a, b) == IF a <= b THEN a ELSE b

Return(v) == [kind |-> "return", value |-> v, exc |-> "none"]
Raise(e)  == [kind |-> "raise",  value |-> <<>>, exc |-> e]

\* seq[a:b] for 0 <= a, b (0-based, end exclusive, clipped to the sequence)
Slice(s, a, b) ==
    LET lo == Min(a, Len(s))
        hi == Min(b, Len(s))
    IN  IF hi <= lo THEN <<>> ELSE SubSeq(s, lo + 1, hi)

\* an end-inclusive slice
SliceTo_inclusive(s, n) ==
    IF n >= 0 THEN Slice(s, 0, n + 1) ELSE Slice(s, 0, Max(Len(s) + n + 1, 0))

\* seq[:n]: a negative n counts from the end
SliceTo(s, n) ==
    IF n >= 0 THEN Slice(s, 0, n) ELSE Slice(s, 0, Max(Len(s) + n, 0))

\* `x in s` for two strs: substring containment
str_contains(s, x) ==
    \E i \in 0..(Len(s) - Len(x)) : Slice(s, i, i + Len(x)) = x

-----------------------------------------------------------------------------
(* rapidfuzz: fuzz.partial_ratio and process.extractOne, as search.py uses them *)

RECURSIVE lcs_len(_, _)
\* length of a longest common subsequence
lcs_len(a, b) ==
    IF a = <<>> \/ b = <<>> THEN 0
    ELSE IF Head(a) = Head(b) THEN 1 + lcs_len(Tail(a), Tail(b))
    ELSE Max(lcs_len(Tail(a), b), lcs_len(a, Tail(b)))

Ratio(n, d) == [num |-> n, den |-> d]

RatioGreater(x, y) == x.num * y.den > y.num * x.den

\* Indel normalized similarity: 1 - (len(a) + len(b) - 2 * lcs) / (len(a) + len(b))
indel_similarity(a, b) ==
    IF Len(a) + Len(b) = 0 THEN Ratio(1, 1)
    ELSE Ratio(2 * lcs_len(a, b), Len(a) + Len(b))

\* the windows of the longer string s2 that the shorter string s1 is aligned
\* with: growing prefixes, full-length windows, shrinking suffixes; a window
\* whose boundary character does not occur in s1 is skipped
partial_windows(s1, s2) ==
    { Slice(s2, 0, i) :
        i \in { k \in 1..(Len(s1) - 1) : s2[k] \in Range(s1) } }
    \cup
    { Slice(s2, i, i + Len(s1)) :
        i \in { k \in 0..(Len(s2) - Len(s1) - 1) : s2[k + Len(s1)] \in Range(s1) } }
    \cup
    { Slice(s2, i, Len(s2)) :
        i \in { k \in (Len(s2) - Len(s1))..(Len(s2) - 1) : s2[k + 1] \in Range(s1) } }

\* best similarity of s1 against a window of s2, for 0 < len(s1) <= len(s2)
partial_ratio_impl(s1, s2) ==
    LET sims == { indel_similarity(s1, w) : w \in partial_windows(s1, s2) }
                    \cup { Ratio(0, 1) }
    IN  CHOOSE r \in sims : \A o \in sims : ~RatioGreater(o, r)

\* fuzz.partial_ratio(s1, s2): the score is 100 * num / den
partial_ratio(s1, s2) ==
    IF Len(s1) = 0 \/ Len(s2) = 0
    THEN IF Len(s1) = Len(s2) THEN Ratio(1, 1) ELSE Ratio(0, 1)
    ELSE LET shorter == IF Len(s1) <= Len(s2) THEN s1 ELSE s2
             longer  == IF Len(s1) <= Len(s2) THEN s2 ELSE s1
             res     == partial_ratio_impl(shorter, longer)
         IN  IF res.num # res.den /\ Len(s1) = Len(s2)
             THEN LET res2 == partial_ratio_impl(longer, shorter)
                  IN  IF RatioGreater(res2, res) THEN res2 ELSE res
             ELSE res

\* process.extractOne(query, choices, scorer=fuzz.partial_ratio): the first
\* choice of the best score, as <<choice, score, index>>
extractOne(q, choices) ==
    LET score(i) == partial_ratio(q, choices[i])
        best == CHOOSE i \in 1..Len(choices) :
                    /\ \A j \in 1..(i - 1) : RatioGreater(score(i), score(j))
                    /\ \A j \in (i + 1)..Len(choices) : ~RatioGreater(score(j), score(i))
    IN  <<choices[best], score(best), best - 1>>

\* a strict comparison in place of >=
score_gt(score, threshold) == 100 * score.num > threshold * score.den

\* score >= fuzz_threshold, the score being 100 * num / den
score_ge(score, threshold) == 100 * score.num >= threshold * score.den

-----------------------------------------------------------------------------
(* search.py *)

IsRequestException(e) == e = "RequestException"

\* a lookup that yields the URL for every key, as a one-entry mapping would
str_getitem_as_mapping(s, key) == Return(s)

\* s[key] for a str s: only an integer key indexes a str
str_getitem(s, key) ==
    IF key.type = "int"
    THEN IF key.val \in 0..(Len(s) - 1)
         THEN Return(<<s[key.val + 1]>>)
         ELSE Raise("IndexError")
    ELSE Raise("TypeError")

\* requests.get(url) ; raise_for_status() ; json(): the collaborator's answer
requests_get(url, up) ==
    IF up.ok THEN Return(up.data) ELSE Raise("RequestException")

\* get_local_data(source): the outcome and the number of HTTP requests issued
get_local_data(src, up) ==
    IF ~str_contains(MAIN_APP_API, src.val)
    THEN [outcome |-> Return(<<>>), sent |-> 0]
    ELSE LET url == str_getitem(MAIN_APP_API, src)
         IN  IF url.kind = "raise"
             THEN \* raised inside the try block while the argument is evaluated
                  IF IsRequestException(url.exc)
                  THEN [outcome |-> Raise("HTTPException"), sent |-> 0]
                  ELSE [outcome |-> url, sent |-> 0]
             ELSE LET got == requests_get(url.value, up)
                  IN  IF got.kind = "raise" /\ IsRequestException(got.exc)
                      THEN [outcome |-> Raise("HTTPException"), sent |-> 1]
                      ELSE [outcome |-> got, sent |-> 1]

\* the list comprehension and the slice of search_local_data
filter_step(data, q, threshold, lim) ==
    LET keep(item) == score_ge(extractOne(q, <<item.title>>)[2], threshold)
        filtered_data == SelectSeq(data, keep)
    IN  SliceTo(filtered_data, lim)

\* search_local_data once get_local_data has returned `data`
search_local_data(data, q, threshold, lim) ==
    IF data = <<>> THEN <<>> ELSE filter_step(data, q, threshold, lim)

NoResponse == [kind |-> "none", status |-> 0, body |-> <<>>, exc |-> "none"]

\* {"results": results} whatever results holds
endpoint_response_unconditional(res) ==
    [kind |-> "results", status |-> 200, body |-> res, exc |-> "none"]

\* {"results": results} if results else {"message": "No results found."}
endpoint_response(res) ==
    IF res # <<>>
    THEN [kind |-> "results", status |-> 200, body |-> res, exc |-> "none"]
    ELSE [kind |-> "message", status |-> 200, body |-> <<>>, exc |-> "none"]

\* an exception leaving the handler: HTTPException(status_code=500) is answered
\* as raised, anything else is an unhandled error of the request
error_response(e) ==
    IF e = "HTTPException"
    THEN [kind |-> "http_exception", status |-> 500, body |-> <<>>, exc |-> e]
    ELSE [kind |-> "unhandled", status |-> 500, body |-> <<>>, exc |-> e]

-----------------------------------------------------------------------------
(* The /search_local request *)

Init ==
    /\ pc = "idle"
    /\ source = PyStr(<<>>)
    /\ query = <<>>
    /\ fuzz_threshold = 0
    /\ limit = 0
    /\ upstream = [ok |-> FALSE, data |-> <<>>]
    /\ local_data = <<>>
    /\ results = <<>>
    /\ response = NoResponse
    /\ requests_sent = 0

\* GET /search_local?source=..&query=..&fuzz_threshold=..&limit=..
Request(s, q, t, l, u) ==
    /\ pc = "idle"
    /\ pc' = "get_local_data"
    /\ source' = s
    /\ query' = q
    /\ fuzz_threshold' = t
    /\ limit' = l
    /\ upstream' = u
    /\ local_data' = <<>>
    /\ results' = <<>>
    /\ response' = NoResponse
    /\ requests_sent' = 0

\* local_data = get_local_data(source)
GetLocalData ==
    /\ pc = "get_local_data"
    /\ LET r == get_local_data(source, upstream)
       IN  /\ requests_sent' = r.sent
           /\ IF r.outcome.kind = "return"
              THEN /\ local_data' = r.outcome.value
                   /\ pc' = "filter"
                   /\ UNCHANGED response
              ELSE /\ response' = error_response(r.outcome.exc)
                   /\ pc' = "done"
                   /\ UNCHANGED local_data
    /\ UNCHANGED <<source, query, fuzz_threshold, limit, upstream, results>>

\* the rest of search_local_data
SearchLocalData ==
    /\ pc = "filter"
    /\ results' = search_local_data(local_data, query, fuzz_threshold, limit)
    /\ pc' = "respond"
    /\ UNCHANGED <<source, query, fuzz_threshold, limit, upstream, local_data,
                   response, requests_sent>>

\* the return statement of search_local_endpoint
Respond ==
    /\ pc = "respond"
    /\ response' = endpoint_response(results)
    /\ pc' = "done"
    /\ UNCHANGED <<source, query, fuzz_threshold, limit, upstream, local_data,
                   results, requests_sent>>

\* the response is sent; nothing of the request is kept
Finish ==
    /\ pc = "done"
    /\ pc' = "idle"
    /\ source' = PyStr(<<>>)
    /\ query' = <<>>
    /\ fuzz_threshold' = 0
    /\ limit' = 0
    /\ upstream' = [ok |-> FALSE, data |-> <<>>]
    /\ local_data' = <<>>
    /\ results' = <<>>
    /\ response' = NoResponse
    /\ requests_sent' = 0

Next ==
    \/ \E s \in 1..Len(SourceList), q \in 1..Len(QueryList),
          t \in 1..Len(ThresholdList), l \in 0..(2 * MaxLimit), u \in Upstreams :
            Request(SourceList[s], QueryList[q], ThresholdList[t], LimitAt(l), u)
    \/ GetLocalData
    \/ SearchLocalData
    \/ Respond
    \/ Finish

Spec == Init /\ [][Next]_vars

-----------------------------------------------------------------------------
(* The filter as a function: search_local_data entered with the value that  *)
(* get_local_data returned as a free input                                  *)

InitFilter ==
    /\ pc = "filter"
    /\ source = SourceList[1]
    /\ \E i \in 1..Len(QueryList) : query = QueryList[i]
    /\ \E i \in 1..Len(ThresholdList) : fuzz_threshold = ThresholdList[i]
    /\ \E i \in 0..(2 * MaxLimit) : limit = LimitAt(i)
    /\ local_data \in DataPool
    /\ upstream = [ok |-> TRUE, data |-> local_data]
    /\ results = <<>>
    /\ response = NoResponse
    /\ requests_sent = 1

NextFilter == SearchLocalData \/ Respond

SpecFilter == InitFilter /\ [][NextFilter]_vars

-----------------------------------------------------------------------------
(* Claims *)

RECURSIVE IsSubsequence(_, _)
\* a is obtained from b by deleting elements, the rest keeping their order
IsSubsequence(a, b) ==
    IF a = <<>> THEN TRUE
    ELSE IF b = <<>> THEN FALSE
    ELSE IF Head(a) = Head(b) THEN IsSubsequence(Tail(a), Tail(b))
    ELSE IsSubsequence(a, Tail(b))

\* the candidate's partial-ratio score against the query reaches the threshold
Passes(item) == score_ge(partial_ratio(query, item.title), fuzz_threshold)

\* positions of the input candidates that pass
PassingIndices == { i \in 1..Len(local_data) : Passes(local_data[i]) }

\* the first n elements of s, for any integer n
FirstN(s, n) == [i \in 1..Min(Max(n, 0), Len(s)) |-> s[i]]

Filtered == pc \in {"respond", "done"}

\* C1: the filter's result is an order-preserving subsequence of the input
\* candidates, of length at most min(limit, number of candidates scoring at
\* least the threshold) (no sequence is shorter than empty: below a limit of
\* 0 the bound is read as 0)
C1_SubsequenceWithinLimit ==
    Filtered =>
        /\ IsSubsequence(results, local_data)
        /\ Len(results) <= Max(0, Min(limit, Cardinality(PassingIndices)))

\* C2: the filter's result is exactly the first `limit` elements of the
\* candidates that score at least the threshold, taken in input order
C2_FirstLimitOfKept ==
    Filtered =>
        \E kept \in SeqsUpTo(Candidates, Len(local_data)) :
            /\ Len(kept) = Cardinality(PassingIndices)
            /\ IsSubsequence(kept, local_data)
            /\ \A i \in 1..Len(kept) : Passes(kept[i])
            /\ results = FirstN(kept, limit)

\* C3: the endpoint answers {"results": [...]} exactly when the filter yields
\* at least one item and {"message": "No results found."} exactly when it
\* yields none; a results response never carries an empty list
C3_ResultsIffNonEmpty ==
    pc = "done" =>
        /\ response.kind \in {"results", "message"}
        /\ response.kind = "results" <=> Len(results) >= 1
        /\ response.kind = "message" <=> Len(results) = 0
        /\ response.kind = "results" => response.body = results /\ response.body # <<>>

C3_Witness ==
    /\ pc = "done"
    /\ response.kind = "results"
    /\ Len(response.body) >= 1
    /\ Len(response.body) < Len(local_data)

\* C4: a filter call whose threshold lies outside [0,100] ends in an
\* InvalidArgument error and returns no candidate sequence
C4_ThresholdOutOfRangeIsError ==
    /\ ~(pc = "respond" /\ fuzz_threshold \notin 0..100)
    /\ (pc = "done" /\ fuzz_threshold \notin 0..100) =>
           response.kind = "invalid_argument"

\* C5: a filter call with limit < 0 ends in an InvalidArgument error: it never
\* returns a candidate sequence, in particular never a non-empty prefix of the
\* surviving candidates
C5_NegativeLimitIsError ==
    /\ ~(pc = "respond" /\ limit < 0 /\ results # <<>>)
    /\ (pc = "done" /\ limit < 0) => response.kind = "invalid_argument"

\* C6: with threshold 0 and limit >= len(C) the filter returns exactly C in
\* its original order
C6_ThresholdZeroReturnsAll ==
    (Filtered /\ fuzz_threshold = 0 /\ limit >= Len(local_data)) =>
        results = local_data

C6_Witness ==
    /\ pc = "respond"
    /\ fuzz_threshold = 0
    /\ limit >= Len(local_data)
    /\ Len(local_data) >= 2
    /\ results = local_data
    /\ \E i \in 1..Len(local_data) :
           ~score_ge(partial_ratio(query, local_data[i].title), 1)

\* C7: applying the filter to its own output with the same query, threshold
\* and limit returns that output unchanged
C7_Idempotent ==
    Filtered =>
        search_local_data(results, query, fuzz_threshold, limit) = results

\* C8: with limit = 0 the filter returns the empty sequence, and the endpoint
\* answers "No results found."
C8_LimitZeroEmpty ==
    (Filtered /\ limit = 0) =>
        /\ results = <<>>
        /\ pc = "done" => response.kind = "message"

C8_Witness ==
    /\ pc = "done"
    /\ limit = 0
    /\ PassingIndices # {}
    /\ results = <<>>
    /\ response.kind = "message"

====
